---- MODULE Spec2Model ----
(***************************************************************************)
(* A model of nlp.py: the Grammar class, the Chart parser (parses, parse,  *)
(* add_edge, scanner, predictor, extender) and CYK_parse.                  *)
(*                                                                         *)
(* Python values are kept in their own shape: a list is a sequence, an     *)
(* edge is the 5-tuple <<start, end, lhs, found, expects>>, a scanned word *)
(* is the pair <<category, word>>, a dict is a function whose DOMAIN is    *)
(* its key set.  Python's chart[k] is chart[k+1] here (sequences start at  *)
(* 1).  The recursion add_edge -> predictor/extender -> add_edge is kept   *)
(* as an explicit call stack with one frame per running scanner, predictor *)
(* or extender; a frame's n is the position of its for-loop iterator.      *)
(***************************************************************************)
EXTENDS Integers, Sequences, FiniteSets, TLC

(***************************************************************************)
(* Bounds of the model.                                                    *)
(***************************************************************************)
\* longest word sequence handed to parses
MaxLen == 3
\* frames the interpreter allows on the call stack before RecursionError
RecursionLimit == 16
\* deepest derivation tree the reference enumeration Trees builds
TreeDepth == 4

(***************************************************************************)
(* Helpers on sequences.                                                   *)
(***************************************************************************)
Range(s) == {s[n] : n \in 1..Len(s)}

\* Python's "x in list"
InList(x, s) == \E n \in 1..Len(s) : s[n] = x

Reverse(s) == [n \in 1..Len(s) |-> s[Len(s) + 1 - n]]

\* all sequences over alphabet a of length 0..m
SeqsUpTo(a, m) == UNION {[1..l -> a] : l \in 0..m}

(***************************************************************************)
(* The grammars the model is run on, in the form Rules(...) and            *)
(* Lexicon(...) hand to Grammar: rules maps a symbol to the list of its    *)
(* alternatives, lexicon is the list of (category, words) in insertion     *)
(* order.                                                                  *)
(***************************************************************************)
\* a cut-down E_: left-recursive NP, "saw" both noun and verb
RulesE == [S |-> << <<"NP", "VP">> >>,
           NP |-> << <<"NP", "N">>, <<"N">> >>,
           VP |-> << <<"V", "NP">>, <<"V">> >>]
LexiconE == << <<"N", <<"man", "saw">> >>, <<"V", <<"saw">> >> >>

\* ambiguous and left-recursive: "man" is both an N and an M
RulesAmb == [S |-> << <<"S", "N">>, <<"N">>, <<"M">> >>]
LexiconAmb == << <<"N", <<"man">> >>, <<"M", <<"man">> >> >>

\* "and" is neither a rule key nor a lexicon key; T is a second start symbol
RulesLit == [S |-> << <<"N", "and">>, <<"N">> >>, T |-> << <<"N">> >>]
LexiconLit == << <<"N", <<"man">> >> >>

\* a cyclic unit rule S -> S
RulesCyc == [S |-> << <<"S">>, <<"N">> >>]
LexiconCyc == << <<"N", <<"man">> >> >>

\* A has an empty right-hand side, as Rules(A = "") builds it
RulesNull == [S |-> << <<"A", "X">>, <<"A", "Y">> >>, A |-> << <<>> >>]
LexiconNull == << <<"X", <<"man">> >>, <<"Y", <<"saw">> >> >>

\* the grammar of the worked scenario: "saw" is a noun and a verb
RulesScn == [S |-> << <<"NP", "VP">> >>,
             NP |-> << <<"Art", "N">> >>,
             VP |-> << <<"V", "NP">> >>]
LexiconScn == << <<"Art", <<"the", "a">> >>,
                 <<"N", <<"man", "saw">> >>,
                 <<"V", <<"saw">> >> >>

\* E_ as the module defines it
RulesE_ == [S |-> << <<"NP", "VP">> >>,
            NP |-> << <<"Art", "N">>, <<"Pronoun">> >>,
            VP |-> << <<"V", "NP">> >>]
LexiconE_ == << <<"Art", <<"the", "a">> >>,
                <<"N", <<"man", "woman", "table", "shoelace", "saw">> >>,
                <<"Pronoun", <<"I", "you", "it">> >>,
                <<"V", <<"saw", "liked", "feel">> >> >>

Permute(r) == [k \in DOMAIN r |-> Reverse(r[k])]

GrammarTable ==
  [E     |-> [rules |-> RulesE, lexicon |-> LexiconE],
   Amb   |-> [rules |-> RulesAmb, lexicon |-> LexiconAmb],
   Lit   |-> [rules |-> RulesLit, lexicon |-> LexiconLit],
   Cyc   |-> [rules |-> RulesCyc, lexicon |-> LexiconCyc],
   Null  |-> [rules |-> RulesNull, lexicon |-> LexiconNull],
   NullR |-> [rules |-> Permute(RulesNull), lexicon |-> LexiconNull],
   AmbR  |-> [rules |-> Permute(RulesAmb), lexicon |-> LexiconAmb],
   Scn   |-> [rules |-> RulesScn, lexicon |-> LexiconScn],
   E_    |-> [rules |-> RulesE_, lexicon |-> LexiconE_]]

\* the grammars of the worked scenario, run on whole sentences
ScenarioNames == {"Scn", "E_"}
TheManSawASaw == <<"the", "man", "saw", "a", "saw">>
ScenarioSentences ==
  {TheManSawASaw, <<"man", "the", "saw">>, <<"a", "saw", "saw", "the", "man">>,
   <<"I", "saw", "it">>}

GrammarNames == DOMAIN GrammarTable \ ScenarioNames

\* the words the caller draws its sentences from, per grammar
Vocab(g) ==
  CASE g \in {"E", "Null", "NullR"} -> {"man", "saw"}
    [] g \in {"Amb", "AmbR"} -> {"man"}
    [] g = "Lit" -> {"man", "and"}
    [] g = "Cyc" -> {"man", "xyz"}

\* the start symbols the caller passes, per grammar
\* (Q is no symbol of any grammar, M is a lexicon key only)
Starts(g) ==
  CASE g = "Lit" -> {"S", "T"}
    [] g \in {"Amb", "AmbR"} -> {"S", "Q", "M"}
    [] OTHER -> {"S"}

(***************************************************************************)
(* State.                                                                  *)
(***************************************************************************)
VARIABLES
  name,        \* Grammar.name
  rules,       \* Grammar.rules
  lexicon,     \* Grammar.lexicon
  categories,  \* Grammar.categories, a defaultdict(list)
  chart,       \* Chart.chart; <<>> before the first parse
  words,       \* argument words of the running or last parses call
  S,           \* argument S of the running or last parses call
  i,           \* the loop variable of parse: next position to scan
  stack,       \* the call stack below parse
  pc,          \* "idle", "parse", "done" or "RecursionError"
  result,      \* the list the last parses call returned
  ret,         \* what the last Grammar.isa / rewrites_for call returned
  first,       \* the caller's record of its first parses call
  P,           \* CYK_parse: the table P, a defaultdict(float)
  cyk          \* CYK_parse: arguments and loop variables

chartVars == <<name, rules, lexicon, categories, chart, words, S, i, stack,
               pc, result, ret, first>>
vars == <<name, rules, lexicon, categories, chart, words, S, i, stack, pc,
          result, ret, first, P, cyk>>

(***************************************************************************)
(* Grammar                                                                 *)
(***************************************************************************)
RECURSIVE LexPairs(_)
\* the (word, lhs) pairs in the order the two loops of __init__ visit them
LexPairs(lex) ==
  IF lex = <<>> THEN <<>>
  ELSE [n \in 1..Len(lex[1][2]) |-> <<lex[1][2][n], lex[1][1]>>]
       \o LexPairs(Tail(lex))

\* the index gone wrong: a later category of a word replaces the earlier
CatsOfLast(pairs, word) ==
  LET hits == {n \in 1..Len(pairs) : pairs[n][1] = word}
  IN IF hits = {} THEN <<>>
     ELSE <<pairs[CHOOSE n \in hits : \A m \in hits : m <= n][2]>>

RECURSIVE CatsOf(_, _)
\* the list categories[word] after all appends
CatsOf(pairs, word) ==
  IF pairs = <<>> THEN <<>>
  ELSE (IF pairs[1][1] = word THEN <<pairs[1][2]>> ELSE <<>>)
       \o CatsOf(Tail(pairs), word)

\* Grammar.__init__: the categories index built from the lexicon
GrammarInit(lex) ==
  LET pairs == LexPairs(lex)
  IN [w \in {pairs[n][1] : n \in 1..Len(pairs)} |-> CatsOf(pairs, w)]

LexiconKeys == {lexicon[n][1] : n \in 1..Len(lexicon)}

\* self.rules.get(cat, ())
rewrites_for(cat) == IF cat \in DOMAIN rules THEN rules[cat] ELSE <<>>

\* isa gone wrong: any category will do for a word the index knows
isaKnown(word, cat) == word \in DOMAIN categories

\* the value of "cat in self.categories[word]"
isa(word, cat) ==
  InList(cat, IF word \in DOMAIN categories THEN categories[word] ELSE <<>>)

\* the effect of evaluating self.categories[word] on the defaultdict
Lookup(d, word) ==
  IF word \in DOMAIN d THEN d
  ELSE [w \in DOMAIN d \cup {word} |-> IF w = word THEN <<>> ELSE d[w]]

(***************************************************************************)
(* Chart                                                                   *)
(***************************************************************************)
NoEdge == <<0, 0, "", <<>>, <<>> >>

Frame(fn, edge, j, word) ==
  [fn |-> fn, edge |-> edge, j |-> j, word |-> word, n |-> 1]

\* the list self.chart[k]
ChartAt(c, k) == c[k + 1]

\* parse gone wrong: the lists of the last parse are kept
StaleChart(ws) ==
  [k \in 1..(Len(ws) + 1) |-> IF k <= Len(chart) THEN chart[k] ELSE <<>>]

\* [[] for i in range(len(words)+1)]
NewChart(ws) == [k \in 1..(Len(ws) + 1) |-> <<>>]

\* add_edge gone wrong: the membership test is dropped
PresentNever(c, edge) == FALSE

\* "edge not in self.chart[end]" of add_edge, negated
Present(c, edge) == InList(edge, ChartAt(c, edge[2]))

\* add_edge gone wrong: the edge is filed under its start
AppendedAtStart(c, edge) == [c EXCEPT ![edge[1] + 1] = Append(@, edge)]

\* self.chart[end].append(edge)
Appended(c, edge) == [c EXCEPT ![edge[2] + 1] = Append(@, edge)]

\* add_edge's dispatch: the frame of the call it makes for a new edge
Dispatch(edge) ==
  IF edge[5] = <<>> THEN Frame("extender", edge, 0, "")
  ELSE Frame("predictor", edge, 0, "")

NoFirst == [set |-> FALSE, words |-> <<>>, S |-> "", pc |-> "", result |-> <<>>,
            rules |-> <<>>, other |-> FALSE]

\* the caller's record of an outcome of parses(words, S)
Noted(outcome, res) ==
  IF ~first.set
  THEN [set |-> TRUE, words |-> words, S |-> S, pc |-> outcome,
        result |-> res, rules |-> rules, other |-> FALSE]
  ELSE IF first.words # words \/ first.S # S
       THEN [first EXCEPT !.other = TRUE]
       ELSE first

\* add_edge(edge) on the chart c, called with the caller's frames st on the
\* stack; cont is where parse stands when the call goes through
add_edge(c, edge, st, cont) ==
  IF Present(c, edge)
  THEN /\ chart' = c
       /\ stack' = st
       /\ pc' = cont
       /\ UNCHANGED first
  ELSE /\ chart' = Appended(c, edge)
       /\ IF Len(st) >= RecursionLimit
          THEN /\ stack' = <<>>
               /\ pc' = "RecursionError"
               /\ first' = Noted("RecursionError", <<>>)
          ELSE /\ stack' = Append(st, Dispatch(edge))
               /\ pc' = cont
               /\ UNCHANGED first

Top == stack[Len(stack)]

\* the predictor gone wrong: it predicts at the start of its edge
PredictedAtStart(edge, rhs) == <<edge[1], edge[1], edge[5][1], <<>>, rhs>>

\* predictor's [j, j, B, [], rhs] for the edge it was called with
Predicted(edge, rhs) == <<edge[2], edge[2], edge[5][1], <<>>, rhs>>

\* scanner's [i, j+1, A, alpha + [(Bb[0], word)], Bb[1:]]
Scanned(e, word) ==
  <<e[1], e[2] + 1, e[3], Append(e[4], <<e[5][1], word>>), Tail(e[5])>>

\* the extender gone wrong: the expected symbol is not taken off
ExtendedKeep(e, edge) == <<e[1], edge[2], e[3], Append(e[4], edge), e[5]>>

\* extender's [i, k, A, alpha + [edge], B1b[1:]]
Extended(e, edge) == <<e[1], edge[2], e[3], Append(e[4], edge), Tail(e[5])>>

\* the stack with the iterator of the running loop moved on
Advance == [stack EXCEPT ![Len(stack)].n = @ + 1]

Pop == SubSeq(stack, 1, Len(stack) - 1)

\* parses(words, S) up to the first call parse makes: the chart is rebuilt and
\* the seed edge is added
parses(ws, s) ==
  /\ pc \in {"idle", "done", "RecursionError"}
  /\ words' = ws
  /\ S' = s
  /\ i' = 0
  /\ result' = <<>>
  /\ ret' = <<>>
  /\ add_edge(NewChart(ws), <<0, 0, "S_", <<>>, <<s>> >>, <<>>, "parse")
  /\ UNCHANGED <<name, rules, lexicon, categories, P, cyk>>

\* one iteration of predictor's loop over rewrites_for(B)
predictor ==
  /\ pc = "parse" /\ stack # <<>> /\ Top.fn = "predictor"
  /\ LET B == Top.edge[5][1]
         alts == rewrites_for(B)
     IN /\ B \in DOMAIN rules
        /\ Top.n <= Len(alts)
        /\ add_edge(chart, Predicted(Top.edge, alts[Top.n]), Advance, pc)
  /\ UNCHANGED <<name, rules, lexicon, categories, words, S, i, result, ret,
                 P, cyk>>

\* one iteration of scanner's loop over self.chart[j]
scanner ==
  /\ pc = "parse" /\ stack # <<>> /\ Top.fn = "scanner"
  /\ Top.n <= Len(ChartAt(chart, Top.j))
  /\ LET e == ChartAt(chart, Top.j)[Top.n]
         Bb == e[5]
         word == Top.word
     IN IF Bb # <<>>
        THEN /\ categories' = Lookup(categories, word)
             /\ IF isa(word, Bb[1])
                THEN add_edge(chart, Scanned(e, word), Advance, pc)
                ELSE /\ stack' = Advance
                     /\ UNCHANGED <<chart, pc, first>>
        ELSE /\ stack' = Advance
             /\ UNCHANGED <<chart, pc, first, categories>>
  /\ UNCHANGED <<name, rules, lexicon, words, S, i, result, ret, P, cyk>>

\* one iteration of extender's loop over self.chart[j]
extender ==
  /\ pc = "parse" /\ stack # <<>> /\ Top.fn = "extender"
  /\ LET edge == Top.edge
         j == edge[1]
         B == edge[3]
     IN /\ Top.n <= Len(ChartAt(chart, j))
        /\ LET e == ChartAt(chart, j)[Top.n]
               B1b == e[5]
           IN IF B1b # <<>> /\ B = B1b[1]
              THEN add_edge(chart, Extended(e, edge), Advance, pc)
              ELSE /\ stack' = Advance
                   /\ UNCHANGED <<chart, pc, first>>
  /\ UNCHANGED <<name, rules, lexicon, categories, words, S, i, result, ret,
                 P, cyk>>

\* the running loop is exhausted (or predictor's B has no rules)
LoopDone ==
  CASE Top.fn = "predictor" ->
         \/ Top.edge[5][1] \notin DOMAIN rules
         \/ Top.n > Len(rewrites_for(Top.edge[5][1]))
    [] Top.fn = "scanner" -> Top.n > Len(ChartAt(chart, Top.j))
    [] Top.fn = "extender" -> Top.n > Len(ChartAt(chart, Top.edge[1]))

\* scanner, predictor or extender returns to its caller
return ==
  /\ pc = "parse" /\ stack # <<>>
  /\ LoopDone
  /\ stack' = Pop
  /\ UNCHANGED <<name, rules, lexicon, categories, chart, words, S, i, pc,
                 result, ret, first, P, cyk>>

\* parse's loop: self.scanner(i, words[i])
parse ==
  /\ pc = "parse" /\ stack = <<>>
  /\ i < Len(words)
  /\ stack' = <<Frame("scanner", NoEdge, i, words[i + 1])>>
  /\ i' = i + 1
  /\ UNCHANGED <<name, rules, lexicon, categories, chart, words, S, pc,
                 result, ret, first, P, cyk>>

RECURSIVE SpanningAnyLhs(_, _)
\* parses gone wrong: the test lhs == S is dropped
SpanningAnyLhs(edges, s) ==
  IF edges = <<>> THEN <<>>
  ELSE LET e == edges[1]
       IN (IF e[1] = 0 /\ e[5] = <<>>
           THEN << <<e[1], e[2], s, e[4], <<>> >> >>
           ELSE <<>>)
          \o SpanningAnyLhs(Tail(edges), s)

RECURSIVE Spanning(_, _)
\* the list comprehension of parses over self.chart[len(words)]
Spanning(edges, s) ==
  IF edges = <<>> THEN <<>>
  ELSE LET e == edges[1]
       IN (IF e[1] = 0 /\ e[3] = s /\ e[5] = <<>>
           THEN << <<e[1], e[2], s, e[4], <<>> >> >>
           ELSE <<>>)
          \o Spanning(Tail(edges), s)

\* parse has returned and parses returns its list
parses_return ==
  /\ pc = "parse" /\ stack = <<>>
  /\ i = Len(words)
  /\ result' = Spanning(ChartAt(chart, Len(words)), S)
  /\ pc' = "done"
  /\ first' = Noted("done", result')
  /\ UNCHANGED <<name, rules, lexicon, categories, chart, words, S, i, stack,
                 ret, P, cyk>>

(***************************************************************************)
(* Calls the client makes on the Grammar between parses.                   *)
(***************************************************************************)
\* grammar.isa(word, cat)
isa_call(word, cat) ==
  /\ pc # "parse"
  /\ ret' = <<"isa", isa(word, cat)>>
  /\ ret' # ret
  /\ categories' = Lookup(categories, word)
  /\ UNCHANGED <<name, rules, lexicon, chart, words, S, i, stack, pc, result,
                 first, P, cyk>>

\* grammar.rewrites_for(cat)
rewrites_for_call(cat) ==
  /\ pc # "parse"
  /\ ret' = <<"rewrites_for", rewrites_for(cat)>>
  /\ ret' # ret
  /\ UNCHANGED <<name, rules, lexicon, categories, chart, words, S, i, stack,
                 pc, result, first, P, cyk>>

\* two rule tables with the same alternatives, listed in any order
SameAlternatives(r1, r2) ==
  /\ DOMAIN r1 = DOMAIN r2
  /\ \A k \in DOMAIN r1 : Len(r1[k]) = Len(r2[k]) /\ Range(r1[k]) = Range(r2[k])

\* the state after Grammar(n, rules, lexicon) and Chart(grammar)
Constructed(n) ==
  /\ name = n
  /\ rules = GrammarTable[n].rules
  /\ lexicon = GrammarTable[n].lexicon
  /\ categories = GrammarInit(GrammarTable[n].lexicon)
  /\ chart = <<>>
  /\ words = <<>>
  /\ S = "S"
  /\ i = 0
  /\ stack = <<>>
  /\ pc = "idle"
  /\ result = <<>>
  /\ ret = <<>>

\* the client builds a Grammar with the alternatives listed in another order,
\* and a Chart for it
NewGrammar(n) ==
  /\ pc # "parse"
  /\ n # name
  /\ GrammarTable[n].lexicon = lexicon
  /\ SameAlternatives(GrammarTable[n].rules, rules)
  /\ name' = n
  /\ rules' = GrammarTable[n].rules
  /\ lexicon' = GrammarTable[n].lexicon
  /\ categories' = GrammarInit(GrammarTable[n].lexicon)
  /\ chart' = <<>>
  /\ words' = <<>>
  /\ S' = "S"
  /\ i' = 0
  /\ stack' = <<>>
  /\ pc' = "idle"
  /\ result' = <<>>
  /\ ret' = <<>>
  /\ UNCHANGED <<first, P, cyk>>

(***************************************************************************)
(* CYK_parse                                                               *)
(***************************************************************************)
\* Probabilities are kept as whole numbers of a common unit; every candidate
\* of one cell is a product of the same number of factors, so max and * act
\* on them as they do on the fractions.

\* longest word sequence handed to CYK_parse
MaxCYKLen == 3

\* a CNF grammar as CYK_parse reads it: categories maps a word to its list of
\* (X, p), cnf_rules is the list of (X, Y, Z, p)
CNFOne == [categories |-> [a |-> << <<"A", 2>> >>, b |-> << <<"B", 3>> >>],
           cnf_rules |-> << <<"S", "A", "B", 2>> >>]
CNFMany == [categories |-> [a |-> << <<"A", 2>>, <<"B", 1>> >>,
                            b |-> << <<"B", 3>> >>],
            cnf_rules |-> << <<"S", "A", "B", 3>>, <<"S", "B", "A", 2>>,
                             <<"A", "A", "B", 1>>, <<"S", "S", "B", 2>>,
                             <<"B", "B", "B", 1>> >>]
CNFTwice == [categories |-> [a |-> << <<"A", 3>>, <<"A", 1>> >>,
                             b |-> << <<"B", 2>>, <<"A", 1>> >>],
             cnf_rules |-> << <<"S", "A", "B", 2>>, <<"S", "A", "A", 1>> >>]
CNFGrammars == {CNFOne, CNFMany, CNFTwice}
CYKWords == {"a", "b"}
CYKSymbols == {"S", "A", "B"}

CYKIdle == [phase |-> "idle", words |-> <<>>, grammar |-> CNFOne, k |-> 1,
            c |-> 1]

EmptyP == [key \in {} |-> 0]

Max(a, b) == IF a >= b THEN a ELSE b

\* the value of P[key] for a defaultdict(float)
PGet(p, key) == IF key \in DOMAIN p THEN p[key] ELSE 0

\* the defaultdict after P[key] has been read
PRead(p, key) ==
  IF key \in DOMAIN p THEN p
  ELSE [x \in DOMAIN p \cup {key} |-> IF x = key THEN 0 ELSE p[x]]

\* P[key] = v
PSet(p, key, v) == [x \in DOMAIN p \cup {key} |-> IF x = key THEN v ELSE p[x]]

RECURSIVE LexSteps(_, _, _)
\* the (X, i, p) the lexical loops visit, in order, from position i on
LexSteps(ws, pos, cats) ==
  IF pos >= Len(ws) THEN <<>>
  ELSE LET l == cats[ws[pos + 1]]
       IN [n \in 1..Len(l) |-> <<l[n][1], pos, l[n][2]>>]
          \o LexSteps(ws, pos + 1, cats)

RECURSIVE Len1Loop(_, _, _, _)
\* for len1 in range(1, length): for each rule
Len1Loop(length, start, len1, R) ==
  IF len1 >= length THEN <<>>
  ELSE [r \in 1..R |-> <<length, start, len1, r>>]
       \o Len1Loop(length, start, len1 + 1, R)

RECURSIVE StartLoop(_, _, _, _)
\* for start in range(N-length+1)
StartLoop(N, length, start, R) ==
  IF start > N - length THEN <<>>
  ELSE Len1Loop(length, start, 1, R) \o StartLoop(N, length, start + 1, R)

RECURSIVE LengthLoop(_, _, _)
\* for length in range(2, N+1)
LengthLoop(N, length, R) ==
  IF length > N THEN <<>>
  ELSE StartLoop(N, length, 0, R) \o LengthLoop(N, length + 1, R)

CYKLex == LexSteps(cyk.words, 0, cyk.grammar.categories)
CYKCombine == LengthLoop(Len(cyk.words), 2, Len(cyk.grammar.cnf_rules))

\* the update gone wrong: the last candidate wins
CombinedLast(cur, y, z, p) == y * z * p

\* max(P[X, start, length], P[Y, start, len1] * P[Z, start+len1, len2] * p)
Combined(cur, y, z, p) == Max(cur, y * z * p)

\* CYK_parse(words, grammar) up to its first loop
CYK_parse(ws, g) ==
  /\ cyk.phase \in {"idle", "done"}
  /\ cyk' = [phase |-> "run", words |-> ws, grammar |-> g, k |-> 1, c |-> 1]
  /\ P' = EmptyP
  /\ UNCHANGED chartVars

\* P[X, i, 1] = p
CYK_lex ==
  /\ cyk.phase = "run"
  /\ cyk.k <= Len(CYKLex)
  /\ LET st == CYKLex[cyk.k]
     IN P' = PSet(P, <<st[1], st[2], 1>>, st[3])
  /\ cyk' = [cyk EXCEPT !.k = @ + 1]
  /\ UNCHANGED chartVars

\* the body of the innermost loop
CYK_combine ==
  /\ cyk.phase = "run"
  /\ cyk.k > Len(CYKLex)
  /\ cyk.c <= Len(CYKCombine)
  /\ LET st == CYKCombine[cyk.c]
         length == st[1]
         start == st[2]
         len1 == st[3]
         len2 == length - len1
         rule == cyk.grammar.cnf_rules[st[4]]
         kx == <<rule[1], start, length>>
         ky == <<rule[2], start, len1>>
         kz == <<rule[3], start + len1, len2>>
         read == PRead(PRead(PRead(P, kx), ky), kz)
     IN P' = PSet(read, kx,
                  Combined(PGet(P, kx), PGet(P, ky), PGet(P, kz), rule[4]))
  /\ cyk' = [cyk EXCEPT !.c = @ + 1]
  /\ UNCHANGED chartVars

\* return P
CYK_return ==
  /\ cyk.phase = "run"
  /\ cyk.k > Len(CYKLex)
  /\ cyk.c > Len(CYKCombine)
  /\ cyk' = [cyk EXCEPT !.phase = "done"]
  /\ UNCHANGED <<P, chartVars>>

(***************************************************************************)
(* Specification of the chart parser.                                      *)
(***************************************************************************)
Init ==
  /\ \E n \in GrammarNames : Constructed(n)
  /\ first = NoFirst
  /\ P = EmptyP
  /\ cyk = CYKIdle

Next ==
  \/ \E ws \in SeqsUpTo(Vocab(name), MaxLen) : \E s \in Starts(name) : parses(ws, s)
  \/ predictor
  \/ scanner
  \/ extender
  \/ return
  \/ parse
  \/ parses_return
  \/ \E w \in Vocab(name) : \E c \in DOMAIN rules \cup LexiconKeys : isa_call(w, c)
  \/ \E c \in DOMAIN rules \cup LexiconKeys : rewrites_for_call(c)
  \/ \E n \in GrammarNames : NewGrammar(n)

Spec == Init /\ [][Next]_vars

(***************************************************************************)
(* Specification of the worked scenario: whole sentences parsed from S.    *)
(***************************************************************************)
ScenarioInit ==
  /\ \E n \in ScenarioNames : Constructed(n)
  /\ first = NoFirst
  /\ P = EmptyP
  /\ cyk = CYKIdle

ScenarioNext ==
  \/ \E ws \in ScenarioSentences : parses(ws, "S")
  \/ predictor
  \/ scanner
  \/ extender
  \/ return
  \/ parse
  \/ parses_return

SpecScenario == ScenarioInit /\ [][ScenarioNext]_vars

(***************************************************************************)
(* Specification of CYK_parse.                                             *)
(***************************************************************************)
CYKInit ==
  /\ Constructed("E")
  /\ first = NoFirst
  /\ P = EmptyP
  /\ cyk = CYKIdle

CYKNext ==
  \/ \E ws \in SeqsUpTo(CYKWords, MaxCYKLen) : \E g \in CNFGrammars : CYK_parse(ws, g)
  \/ CYK_lex
  \/ CYK_combine
  \/ CYK_return

SpecCYK == CYKInit /\ [][CYKNext]_vars

(***************************************************************************)
(* What a derivation is, read off the grammar alone.                       *)
(***************************************************************************)
\* word is listed under category cat in the lexicon
InLexicon(cat, word) ==
  \E n \in 1..Len(lexicon) : lexicon[n][1] = cat /\ InList(word, lexicon[n][2])

\* a found child is a scanned (category, word) or a completed edge
IsLeaf(c) == Len(c) = 2
CatOf(c) == IF IsLeaf(c) THEN c[1] ELSE c[3]

RECURSIVE ValidNode(_)
\* t and every node below it applies a rule of the grammar, every leaf is a
\* lexicon entry
ValidNode(t) ==
  /\ t[5] = <<>>
  /\ t[3] \in DOMAIN rules
  /\ InList([n \in 1..Len(t[4]) |-> CatOf(t[4][n])], rules[t[3]])
  /\ \A n \in 1..Len(t[4]) :
       IF IsLeaf(t[4][n]) THEN InLexicon(t[4][n][1], t[4][n][2])
       ELSE ValidNode(t[4][n])

RECURSIVE LeavesOf(_)
\* the words at the leaves of the found list f, left to right
LeavesOf(f) ==
  IF f = <<>> THEN <<>>
  ELSE (IF IsLeaf(f[1]) THEN <<f[1][2]>> ELSE LeavesOf(f[1][4]))
       \o LeavesOf(Tail(f))

RECURSIVE Trees(_, _, _, _)
RECURSIVE Founds(_, _, _, _)
\* the derivations of words[a..b) from sym of depth at most d, as edges
Trees(sym, a, b, d) ==
  IF d = 0 \/ sym \notin DOMAIN rules THEN {}
  ELSE UNION {{<<a, b, sym, f, <<>> >> : f \in Founds(rules[sym][n], a, b, d)} :
                n \in 1..Len(rules[sym])}

\* the found lists that derive words[a..b) from the symbols rhs
Founds(rhs, a, b, d) ==
  IF rhs = <<>> THEN (IF a = b THEN {<<>>} ELSE {})
  ELSE UNION {{<<c>> \o rest :
                 c \in (IF m = a + 1 /\ InLexicon(rhs[1], words[a + 1])
                        THEN {<<rhs[1], words[a + 1]>>} ELSE {})
                       \cup Trees(rhs[1], a, m, d - 1),
                 rest \in Founds(Tail(rhs), m, b, d)} :
                m \in a..b}

RECURSIVE Matched(_)
\* the (category, word) leaves of the found list f, left to right
Matched(f) ==
  IF f = <<>> THEN <<>>
  ELSE (IF IsLeaf(f[1]) THEN <<f[1]>> ELSE Matched(f[1][4]))
       \o Matched(Tail(f))

\* the running iteration of scanner, predictor or extender calls add_edge
HasCall ==
  /\ pc = "parse" /\ stack # <<>>
  /\ CASE Top.fn = "predictor" ->
            /\ Top.edge[5][1] \in DOMAIN rules
            /\ Top.n <= Len(rewrites_for(Top.edge[5][1]))
       [] Top.fn = "scanner" ->
            /\ Top.n <= Len(ChartAt(chart, Top.j))
            /\ ChartAt(chart, Top.j)[Top.n][5] # <<>>
            /\ isa(Top.word, ChartAt(chart, Top.j)[Top.n][5][1])
       [] Top.fn = "extender" ->
            /\ Top.n <= Len(ChartAt(chart, Top.edge[1]))
            /\ ChartAt(chart, Top.edge[1])[Top.n][5] # <<>>
            /\ ChartAt(chart, Top.edge[1])[Top.n][5][1] = Top.edge[3]

\* the edge that call of add_edge is given
CallEdge ==
  CASE Top.fn = "predictor" ->
         Predicted(Top.edge, rewrites_for(Top.edge[5][1])[Top.n])
    [] Top.fn = "scanner" -> Scanned(ChartAt(chart, Top.j)[Top.n], Top.word)
    [] Top.fn = "extender" ->
         Extended(ChartAt(chart, Top.edge[1])[Top.n], Top.edge)

\* chart[k] is closed under predictor and extender: every alternative of a
\* symbol expected in chart[k] is predicted there, and every complete edge of
\* chart[k] has extended the edges that expect it
ClosedAt(k) ==
  \A m \in 1..Len(ChartAt(chart, k)) :
    LET e == ChartAt(chart, k)[m]
    IN IF e[5] # <<>>
       THEN \A n \in 1..Len(rewrites_for(e[5][1])) :
              InList(Predicted(e, rewrites_for(e[5][1])[n]), ChartAt(chart, k))
       ELSE \A n \in 1..Len(ChartAt(chart, e[1])) :
              LET a == ChartAt(chart, e[1])[n]
              IN (a[5] # <<>> /\ a[5][1] = e[3]) =>
                   InList(Extended(a, e), ChartAt(chart, k))

\* parse starts scanner(i, words[i])
ScanStarts == pc = "parse" /\ stack = <<>> /\ stack' # <<>>

\* a step of parse: i counts the scanners started, so scanner(i - 1) is the
\* one running or last run; edges go to chart[i] only, and the scanners are
\* started for 0, 1, ... in turn, one for each position
LeftToRight ==
  /\ \A k \in 0..Len(words) :
       ChartAt(chart', k) # ChartAt(chart, k) => k = i
  /\ IF ScanStarts
     THEN /\ i < Len(words)
          /\ i' = i + 1
          /\ stack' = <<Frame("scanner", NoEdge, i, words[i + 1])>>
     ELSE i' = i
  /\ \A n \in 1..Len(stack') :
       stack'[n].fn = "scanner" => n = 1 /\ stack'[n].j = i' - 1
  /\ pc' = "done" => i = Len(words)

RECURSIVE Contiguous(_, _, _)
\* the children f cover pos..end without gap or overlap: a scanned word
\* covers one position, a completed edge its own span
Contiguous(f, pos, end) ==
  IF f = <<>> THEN pos = end
  ELSE IF IsLeaf(f[1]) THEN Contiguous(Tail(f), pos + 1, end)
       ELSE f[1][1] = pos /\ Contiguous(Tail(f), f[1][2], end)

\* some rule of the grammar has an empty right-hand side
HasEmptyRhs == \E k \in DOMAIN rules : InList(<<>>, rules[k])

\* the caller asks again what it asked first
SameCall == first.set /\ first.words = words /\ first.S = S

(***************************************************************************)
(* Properties.                                                             *)
(***************************************************************************)
\* C1: whenever parses returns, every derivation of the whole input from S is
\* among the returned edges.
C1_Complete ==
  pc = "done" =>
    \A t \in Trees(S, 0, Len(words), TreeDepth) : InList(t, result)

\* C2: parse terminates on every grammar and input: the recursion through
\* add_edge never runs out of stack.
C2_Terminates == pc # "RecursionError"

\* C3: every edge parses returns is a derivation of the input: each node
\* applies a rule of the grammar, each leaf is a lexicon entry, and the
\* leaves spell the input.
C3_Sound ==
  pc = "done" =>
    \A n \in 1..Len(result) :
      /\ ValidNode(result[n])
      /\ LeavesOf(result[n][4]) = words

C3_Witness ==
  /\ pc = "done"
  /\ Len(words) >= 2
  /\ Len(result) >= 2

\* C4: no chart[k] ever holds two equal edges.
C4_NoDuplicates ==
  \A k \in 1..Len(chart) :
    \A m, n \in 1..Len(chart[k]) : m # n => chart[k][m] # chart[k][n]

\* the predictor has just predicted its own edge again (left recursion), and
\* add_edge has turned it down
C4_Witness ==
  /\ pc = "parse" /\ stack # <<>>
  /\ Top.fn = "predictor"
  /\ Top.n = 2
  /\ Top.edge = <<Top.edge[2], Top.edge[2], Top.edge[5][1], <<>>,
                  rewrites_for(Top.edge[5][1])[1]>>

\* C5: once position j is scanned, an edge of chart[j] that expects a symbol
\* which is neither a rule key nor a lexicon key has been advanced exactly
\* when words[j] is that symbol.
C5_Literal ==
  pc = "done" =>
    \A j \in 0..(Len(words) - 1) :
      \A n \in 1..Len(ChartAt(chart, j)) :
        LET e == ChartAt(chart, j)[n]
        IN (e[5] # <<>> /\ e[5][1] \notin DOMAIN rules \cup LexiconKeys) =>
             (words[j + 1] = e[5][1]
                <=> Present(chart, <<e[1], j + 1, e[3],
                                     Append(e[4], <<e[5][1], words[j + 1]>>),
                                     Tail(e[5])>>))

\* C6: the set of parses is the same whatever the order of the alternatives
\* in grammar.rules.
C6_OrderIndependent ==
  (pc = "done" /\ SameCall /\ first.pc = "done") =>
    Range(result) = Range(first.result)

\* C7: rules, lexicon and categories are what Grammar.__init__ made them.
C7_ReadOnly ==
  /\ rules = GrammarTable[name].rules
  /\ lexicon = GrammarTable[name].lexicon
  /\ categories = GrammarInit(GrammarTable[name].lexicon)

\* C8: every cell of the returned table of length 2 or more holds the maximum
\* over rules and splits of the product of its two parts and the rule's
\* probability, 0 without any; a lone rule over two words gives the product
\* of the two lexical probabilities and its own.
C8_Recurrence ==
  cyk.phase = "done" =>
    LET N == Len(cyk.words)
        R == cyk.grammar.cnf_rules
        Cands(X, s, l) ==
          {PGet(P, <<R[r][2], s, l1>>) * PGet(P, <<R[r][3], s + l1, l - l1>>)
             * R[r][4] : r \in {q \in 1..Len(R) : R[q][1] = X}, l1 \in 1..(l - 1)}
    IN /\ \A X \in CYKSymbols : \A l \in 2..N : \A s \in 0..(N - l) :
            /\ \A v \in Cands(X, s, l) : PGet(P, <<X, s, l>>) >= v
            /\ PGet(P, <<X, s, l>>) \in Cands(X, s, l) \cup {0}
            /\ Cands(X, s, l) = {} => PGet(P, <<X, s, l>>) = 0
       /\ (cyk.grammar = CNFOne /\ cyk.words = <<"a", "b">>) =>
            PGet(P, <<"S", 0, 2>>) = 2 * 3 * 2

C8_Witness ==
  /\ cyk.phase = "done"
  /\ cyk.grammar = CNFMany
  /\ cyk.words = <<"a", "a", "b">>
  /\ PGet(P, <<"S", 0, 3>>) > 0

\* C9: when the input holds a token of no lexicon entry, parses raises no
\* error, returns the empty list, and no edge ends beyond that token.
C9_Negative ==
  \A p \in 1..Len(words) :
    (\A n \in 1..Len(lexicon) : ~InList(words[p], lexicon[n][2])) =>
      /\ pc # "RecursionError"
      /\ pc = "done" => result = <<>>
      /\ \A k \in (p + 1)..Len(chart) : chart[k] = <<>>

\* C10: on the same grammar, parses returns for the same words and S the set
\* it returned the first time, whatever was parsed in between.
C10_Deterministic ==
  (pc = "done" /\ SameCall /\ first.rules = rules) =>
    /\ first.pc = "done"
    /\ Range(result) = Range(first.result)

C10_Witness ==
  /\ pc = "done" /\ SameCall /\ first.rules = rules
  /\ first.other
  /\ words # <<>>
  /\ result # <<>>

\* C11: with a start symbol that is no key of grammar.rules the predictor
\* adds nothing for the seed edge, no error is raised and parses returns the
\* empty list.
C11_UndefinedStart ==
  (pc \in {"parse", "done", "RecursionError"} /\ S \notin DOMAIN rules) =>
    /\ pc # "RecursionError"
    /\ \A n \in 1..Len(ChartAt(chart, 0)) :
         ChartAt(chart, 0)[n] = <<0, 0, "S_", <<>>, <<S>> >>
    /\ pc = "done" => result = <<>>

\* the start symbol is a lexicon key only, the seed edge has been scanned
C11_Witness ==
  /\ pc = "done"
  /\ S \notin DOMAIN rules
  /\ Len(words) >= 1
  /\ ChartAt(chart, 1) # <<>>

\* C12: the list parses returns has exactly one element per derivation of
\* the whole input from S, and lists no derivation twice.
C12_CountsDerivations ==
  pc = "done" =>
    /\ Len(result) = Cardinality(Trees(S, 0, Len(words), TreeDepth))
    /\ \A m, n \in 1..Len(result) : m # n => result[m] # result[n]

\* C13: for S -> NP VP, NP -> Art N, VP -> V NP with Art = {the, a},
\* N = {man, saw}, V = {saw} (and for E_), parses('the man saw a saw') returns
\* at least one edge, every returned edge is [0, 5, 'S', found, []], and in
\* each the word at position 2 is matched as ('V', 'saw') and the word at
\* position 4 as ('N', 'saw').
C13_Scenario ==
  (pc = "done" /\ name \in ScenarioNames /\ words = TheManSawASaw) =>
    /\ Len(result) >= 1
    /\ \A n \in 1..Len(result) :
         /\ result[n][1] = 0 /\ result[n][2] = 5
         /\ result[n][3] = "S" /\ result[n][5] = <<>>
         /\ Len(Matched(result[n][4])) = 5
         /\ Matched(result[n][4])[3] = <<"V", "saw">>
         /\ Matched(result[n][4])[5] = <<"N", "saw">>

\* the sentence has been parsed with the grammar of the scenario
C13_Witness ==
  /\ pc = "done"
  /\ name = "Scn"
  /\ words = TheManSawASaw
  /\ result # <<>>

\* C14: add_edge on an edge already in chart[end] leaves the whole chart
\* unchanged and runs neither predictor nor extender; predictor or extender
\* is started only for an edge that was not in the chart and is appended in
\* the same step, and no edge leaves the chart during a parse, so each
\* distinct edge gets at most one run, at its first insertion.
C14_PresentNoOp ==
  [][pc = "parse" =>
       /\ HasCall =>
            IF InList(CallEdge, ChartAt(chart, CallEdge[2]))
            THEN chart' = chart /\ stack' = Advance
            ELSE /\ chart' = Appended(chart, CallEdge)
                 /\ pc' = "parse" => stack' = Append(Advance, Dispatch(CallEdge))
       /\ \A k \in 1..Len(chart) :
            /\ Len(chart'[k]) >= Len(chart[k])
            /\ SubSeq(chart'[k], 1, Len(chart[k])) = chart[k]
       /\ (Len(stack') > Len(stack)
           /\ stack'[Len(stack')].fn \in {"predictor", "extender"}) =>
            LET new == stack'[Len(stack')].edge
            IN /\ ~InList(new, ChartAt(chart, new[2]))
               /\ chart' = Appended(chart, new)]_vars

\* the predictor predicts an edge that an earlier prediction has put in the
\* chart, and add_edge is about to turn it down
C14_Witness ==
  /\ HasCall
  /\ Top.fn = "predictor"
  /\ CallEdge # Top.edge
  /\ InList(CallEdge, ChartAt(chart, CallEdge[2]))

\* C15: when parse has returned, for every complete edge e = [j, k, B, found,
\* []] of chart[k] and every active edge of chart[j] that expects B next
\* (j == k included), the edge extended by e is in chart[k].
C15_CompletionClosure ==
  pc = "done" =>
    \A k \in 0..Len(words) :
      \A m \in 1..Len(ChartAt(chart, k)) :
        LET e == ChartAt(chart, k)[m]
        IN e[5] = <<>> =>
             \A n \in 1..Len(ChartAt(chart, e[1])) :
               LET a == ChartAt(chart, e[1])[n]
               IN (a[5] # <<>> /\ a[5][1] = e[3]) =>
                    InList(Extended(a, e), ChartAt(chart, k))

\* C16: once scanner(i, words[i]) has started no edge is added to chart[k]
\* for k <= i, every edge it and the calls it triggers add goes into
\* chart[i+1], chart[i] is closed under predictor and extender before
\* position i is scanned, and the positions are scanned in the order 0, 1,
\* ..., len(words)-1, once each.
C16_LeftToRight ==
  [][pc = "parse" => LeftToRight /\ (ScanStarts => ClosedAt(i))]_vars

\* C17: during and after parse the chart has the lists 0..len(words), every
\* edge stored in chart[k] has end == k and 0 <= start <= end <= len(words),
\* and every edge handed to add_edge has its end in 0..len(words).
C17_Indexing ==
  pc \in {"parse", "done", "RecursionError"} =>
    /\ Len(chart) = Len(words) + 1
    /\ \A k \in 0..Len(words) :
         \A n \in 1..Len(ChartAt(chart, k)) :
           LET e == ChartAt(chart, k)[n]
           IN e[2] = k /\ 0 <= e[1] /\ e[1] <= e[2] /\ e[2] <= Len(words)
    /\ HasCall => CallEdge[2] \in 0..Len(words)

\* parses has read chart[len(words)], which holds an edge that starts after
\* position 0 and spans a word
C17_Witness ==
  /\ pc = "done"
  /\ \E n \in 1..Len(ChartAt(chart, Len(words))) :
       /\ 0 < ChartAt(chart, Len(words))[n][1]
       /\ ChartAt(chart, Len(words))[n][1] < Len(words)

\* C18: after CYK_parse, for every position i and symbol X the cell
\* P[X, i, 1] holds the largest p among the entries (X, p) of
\* categories[words[i]], also when X is listed more than once, and 0 when X
\* is not listed for words[i].
C18_BaseMaximum ==
  cyk.phase = "done" =>
    \A pos \in 0..(Len(cyk.words) - 1) : \A X \in CYKSymbols :
      LET l == cyk.grammar.categories[cyk.words[pos + 1]]
          ps == {l[n][2] : n \in {m \in 1..Len(l) : l[m][1] = X}}
      IN /\ \A v \in ps : PGet(P, <<X, pos, 1>>) >= v
         /\ PGet(P, <<X, pos, 1>>) \in ps \cup {0}
         /\ ps = {} => PGet(P, <<X, pos, 1>>) = 0

\* C19: every edge [start, end, lhs, found, expects] of the chart with
\* lhs # 'S_' is a dotted rule: the categories of found followed by expects
\* are a right-hand side of rules[lhs], the spans of the found children run
\* from start to end without a gap, and for a grammar without empty
\* right-hand sides found is empty iff start == end.
C19_DottedRule ==
  \A k \in 1..Len(chart) : \A m \in 1..Len(chart[k]) :
    LET e == chart[k][m]
    IN e[3] # "S_" =>
         /\ e[3] \in DOMAIN rules
         /\ InList([n \in 1..Len(e[4]) |-> CatOf(e[4][n])] \o e[5],
                   rules[e[3]])
         /\ Contiguous(e[4], e[1], e[2])
         /\ ~HasEmptyRhs => (e[4] = <<>> <=> e[1] = e[2])

\* the chart holds an edge that has found a completed edge and then a
\* second child
C19_Witness ==
  \E k \in 1..Len(chart) : \E m \in 1..Len(chart[k]) :
    /\ chart[k][m][3] # "S_"
    /\ Len(chart[k][m][4]) >= 2
    /\ ~IsLeaf(chart[k][m][4][1])

\* C20: for every edge [j, k, B, found, expects] of the chart with B # 'S_',
\* chart[j] holds an active edge whose first expected symbol is B; the only
\* 'S_' edges are the seed [0, 0, 'S_', [], [S]] and its completions.
C20_TopDown ==
  \A k \in 1..Len(chart) : \A m \in 1..Len(chart[k]) :
    LET e == chart[k][m]
    IN IF e[3] # "S_"
       THEN \E n \in 1..Len(ChartAt(chart, e[1])) :
              /\ ChartAt(chart, e[1])[n][5] # <<>>
              /\ ChartAt(chart, e[1])[n][5][1] = e[3]
       ELSE \/ e = <<0, 0, "S_", <<>>, <<S>> >>
            \/ /\ e[1] = 0 /\ e[5] = <<>>
               /\ Len(e[4]) = 1 /\ CatOf(e[4][1]) = S

\* the seed has been completed over an input in which a constituent was
\* predicted and built after position 0
C20_Witness ==
  /\ \E k \in 2..Len(chart) : \E m \in 1..Len(chart[k]) :
       chart[k][m][3] = "S_"
  /\ \E k \in 2..Len(chart) : \E m \in 1..Len(chart[k]) :
       /\ chart[k][m][3] # "S_"
       /\ chart[k][m][1] > 0
       /\ chart[k][m][5] = <<>>
====
